---- MODULE Spec2Model ----
(***************************************************************************)
(* Model of the MILK backend (src/server.js): the in-memory database `db`, *)
(* the file db-milk.json that saveDb rewrites, and the handlers of the     *)
(* /api/milk routes.                                                       *)
(*                                                                         *)
(* JavaScript values are records [t, v, s]: t is the type tag, v the       *)
(* integer payload of a number, s the characters of a string.  Finite      *)
(* numbers of the model are integers; NaN, Infinity and -Infinity are      *)
(* values of their own, with the arithmetic of IEEE-754.  Strings are      *)
(* sequences of one-character strings so that parseInt, parseFloat, Number *)
(* and toLowerCase are computed character by character.                    *)
(***************************************************************************)
EXTENDS Integers, Sequences, FiniteSets, TLC

VARIABLES db, file, pending, resp, nextId, nsave, removed, failed

vars == <<db, file, pending, resp, nextId, nsave, removed, failed>>

(* ------------------------------ bounds -------------------------------- *)

\* Accepted mutating requests in one behaviour, that is calls of saveDb() by the
\* handlers: a handler of a collection is taken while fewer than its bound have
\* been made.  Rejected requests and GETs are not counted.  The bounds also
\* limit the requests suspended in `await saveDb()` at the same time.
MaxPointsSaves == 2
MaxRewardSaves == 3
MaxOrderSaves == 3
MaxPrepaidSaves == 2

(* --------------------------- JavaScript values ------------------------ *)

Undef == [t |-> "undefined", v |-> 0, s |-> <<>>]
Null == [t |-> "null", v |-> 0, s |-> <<>>]
Num(i) == [t |-> "number", v |-> i, s |-> <<>>]
NaN == [t |-> "nan", v |-> 0, s |-> <<>>]
PosInf == [t |-> "inf", v |-> 1, s |-> <<>>]
NegInf == [t |-> "inf", v |-> -1, s |-> <<>>]
Str(cs) == [t |-> "string", v |-> 0, s |-> cs]

IsFinite(x) == x.t = "number"
IsNumber(x) == x.t \in {"number", "nan", "inf"}

\* !x is false exactly for these (ToBoolean).
Truthy(x) ==
  CASE x.t = "undefined" -> FALSE
    [] x.t = "null" -> FALSE
    [] x.t = "nan" -> FALSE
    [] x.t = "number" -> x.v # 0
    [] x.t = "inf" -> TRUE
    [] x.t = "string" -> Len(x.s) > 0
    [] OTHER -> TRUE

\* a || b
OrElse(a, b) == IF Truthy(a) THEN a ELSE b

JsNeg(a) ==
  CASE a.t = "number" -> Num(-a.v)
    [] a.t = "inf" -> [a EXCEPT !.v = -a.v]
    [] OTHER -> NaN

\* a + b on numbers
JsAdd(a, b) ==
  CASE a.t = "nan" \/ b.t = "nan" -> NaN
    [] a.t = "inf" /\ b.t = "inf" -> IF a.v = b.v THEN a ELSE NaN
    [] a.t = "inf" -> a
    [] b.t = "inf" -> b
    [] OTHER -> Num(a.v + b.v)

\* a < b on numbers: false as soon as one side is NaN
JsLt(a, b) ==
  CASE a.t = "nan" \/ b.t = "nan" -> FALSE
    [] a.t = "inf" /\ b.t = "inf" -> a.v < b.v
    [] a.t = "inf" -> a.v < 0
    [] b.t = "inf" -> b.v > 0
    [] OTHER -> a.v < b.v

\* a <= b on numbers
JsLe(a, b) ==
  CASE a.t = "nan" \/ b.t = "nan" -> FALSE
    [] OTHER -> ~JsLt(b, a)

\* Math.max(a, b)
MathMax(a, b) ==
  CASE a.t = "nan" \/ b.t = "nan" -> NaN
    [] JsLt(a, b) -> b
    [] OTHER -> a

\* Math.floor(a / 10)
FloorDiv10(a) ==
  CASE a.t = "number" -> Num(a.v \div 10)
    [] OTHER -> a

(* ------------------------------ strings ------------------------------- *)

Digits == <<"0", "1", "2", "3", "4", "5", "6", "7", "8", "9">>

IsDigit(c) == \E i \in 1..10 : Digits[i] = c

DigitVal(c) == (CHOOSE i \in 1..10 : Digits[i] = c) - 1

IsSpace(c) == c = " "

InfinityChars == <<"I", "n", "f", "i", "n", "i", "t", "y">>

RECURSIVE NatChars(_)
NatChars(n) ==
  IF n < 10 THEN <<Digits[n + 1]>> ELSE NatChars(n \div 10) \o <<Digits[(n % 10) + 1]>>

\* String(x)
JsString(x) ==
  CASE x.t = "string" -> x.s
    [] x.t = "number" -> IF x.v < 0 THEN <<"-">> \o NatChars(-x.v) ELSE NatChars(x.v)
    [] x.t = "inf" -> IF x.v < 0 THEN <<"-">> \o InfinityChars ELSE InfinityChars
    [] x.t = "nan" -> <<"N", "a", "N">>
    [] x.t = "null" -> <<"n", "u", "l", "l">>
    [] OTHER -> <<"u", "n", "d", "e", "f", "i", "n", "e", "d">>

RECURSIVE TrimLeft(_)
TrimLeft(cs) ==
  IF cs # <<>> /\ IsSpace(Head(cs)) THEN TrimLeft(Tail(cs)) ELSE cs

RECURSIVE TrimRight(_)
TrimRight(cs) ==
  IF cs # <<>> /\ IsSpace(cs[Len(cs)]) THEN TrimRight(SubSeq(cs, 1, Len(cs) - 1)) ELSE cs

\* The longest prefix of decimal digits.
RECURSIVE DigitPrefix(_)
DigitPrefix(cs) ==
  IF cs # <<>> /\ IsDigit(Head(cs)) THEN <<Head(cs)>> \o DigitPrefix(Tail(cs)) ELSE <<>>

RECURSIVE DigitsValue(_)
DigitsValue(cs) ==
  IF cs = <<>> THEN 0 ELSE 10 * DigitsValue(SubSeq(cs, 1, Len(cs) - 1)) + DigitVal(cs[Len(cs)])

HasSign(cs) == cs # <<>> /\ Head(cs) \in {"-", "+"}

SignOf(cs) == IF cs # <<>> /\ Head(cs) = "-" THEN -1 ELSE 1

Unsigned(cs) == IF HasSign(cs) THEN Tail(cs) ELSE cs

StartsWith(cs, p) == Len(cs) >= Len(p) /\ SubSeq(cs, 1, Len(p)) = p

\* parseInt(x, 10): leading white space, a sign, then the longest run of digits.
ParseInt(x) ==
  LET cs == TrimLeft(JsString(x))
      ds == DigitPrefix(Unsigned(cs))
  IN IF ds = <<>> THEN NaN ELSE Num(SignOf(cs) * DigitsValue(ds))

\* parseFloat(x): as parseInt, and "Infinity" is a number.  The characters of
\* the model hold no "." and no exponent, so the decimal literal is a digit run.
ParseFloat(x) ==
  LET cs == TrimLeft(JsString(x))
      body == Unsigned(cs)
      ds == DigitPrefix(body)
  IN CASE StartsWith(body, InfinityChars) -> IF SignOf(cs) < 0 THEN NegInf ELSE PosInf
       [] ds = <<>> -> NaN
       [] OTHER -> Num(SignOf(cs) * DigitsValue(ds))

\* Number(x): the whole trimmed string must be a numeric literal; "" is 0.
ToNumber(x) ==
  CASE IsNumber(x) -> x
    [] x.t = "null" -> Num(0)
    [] x.t = "undefined" -> NaN
    [] OTHER ->
       LET cs == TrimRight(TrimLeft(x.s))
           body == Unsigned(cs)
       IN CASE cs = <<>> -> Num(0)
            [] body = InfinityChars -> IF SignOf(cs) < 0 THEN NegInf ELSE PosInf
            [] body # <<>> /\ DigitPrefix(body) = body -> Num(SignOf(cs) * DigitsValue(body))
            [] OTHER -> NaN

LowerOf(c) ==
  CASE c = "W" -> "w" [] c = "Y" -> "y" [] c = "D" -> "d" [] c = "A" -> "a"
    [] c = "N" -> "n" [] c = "E" -> "e" [] c = "G" -> "g" [] c = "O" -> "o"
    [] c = "T" -> "t" [] c = "P" -> "p" [] OTHER -> c

\* s.toLowerCase()
ToLowerCase(cs) == [i \in 1..Len(cs) |-> LowerOf(cs[i])]

(* ------------------------------ arrays -------------------------------- *)

\* a slip: push where unshift is meant
UnshiftAtTail(arr, e) == Append(arr, e)

\* arr.unshift(e)
Unshift(arr, e) == <<e>> \o arr

\* arr.push(e)
Push(arr, e) == Append(arr, e)

\* arr.splice(idx, 1), idx counted from 1
Splice(arr, idx) == SubSeq(arr, 1, idx - 1) \o SubSeq(arr, idx + 1, Len(arr))

\* arr.findIndex(p), counted from 1, and 0 for -1; hits is the set of matching indexes
FirstIndex(hits) == IF hits = {} THEN 0 ELSE CHOOSE i \in hits : \A j \in hits : i <= j

(* ---------------------------- the database ---------------------------- *)

\* let db = { users: [], rewards: [], orders: [], prepaid: [], pointsOps: [] }
EmptyDb == [users |-> <<>>, rewards |-> <<>>, orders |-> <<>>, prepaid |-> <<>>, pointsOps |-> <<>>]

\* JSON.stringify writes NaN, Infinity and -Infinity as null.
JsonNum(x) == IF x.t \in {"nan", "inf"} THEN Null ELSE x

JsonUser(u) == [u EXCEPT !.points = JsonNum(@)]

JsonOp(o) == [o EXCEPT !.amount = JsonNum(@), !.points = JsonNum(@)]

JsonReward(r) == [r EXCEPT !.cost = JsonNum(@)]

JsonOrder(o) == [o EXCEPT !.total = JsonNum(@)]

JsonEntry(h) == [h EXCEPT !.delta = JsonNum(@)]

JsonCard(c) ==
  [c EXCEPT !.value = JsonNum(@), !.bonus = JsonNum(@), !.total = JsonNum(@),
            !.balance = JsonNum(@), !.history = [i \in 1..Len(@) |-> JsonEntry(@[i])]]

\* JSON.stringify(db, null, 2): the text saveDb hands to writeFile
Stringify(d) ==
  [users |-> [i \in 1..Len(d.users) |-> JsonUser(d.users[i])],
   rewards |-> [i \in 1..Len(d.rewards) |-> JsonReward(d.rewards[i])],
   orders |-> [i \in 1..Len(d.orders) |-> JsonOrder(d.orders[i])],
   prepaid |-> [i \in 1..Len(d.prepaid) |-> JsonCard(d.prepaid[i])],
   pointsOps |-> [i \in 1..Len(d.pointsOps) |-> JsonOp(d.pointsOps[i])]]

(* -------------------------- handler results --------------------------- *)

\* A handler's synchronous part ends either in `return res.status(s).json(...)`
\* (save = FALSE) or in `await saveDb()` followed by the success response, whose
\* body is the object the handler holds; the model keeps its status.
Rejected(d, status, msg) ==
  [db |-> d, status |-> status, msg |-> msg, save |-> FALSE, usedId |-> FALSE]

Accepted(d, status, usedId) ==
  [db |-> d, status |-> status, msg |-> "", save |-> TRUE, usedId |-> usedId]

(* ------------------------ POST /api/milk/points/add ------------------- *)

\* let pts = parseInt(points, 10); if (!pts || pts <= 0) pts = Math.floor(amt / 10)
DerivePoints(points, amt) ==
  LET pts == ParseInt(points)
  IN IF ~Truthy(pts) \/ JsLe(pts, Num(0)) THEN FloorDiv10(amt) ELSE pts

\* if (!pts || pts <= 0) return 400
PointsInvalid(pts) == ~Truthy(pts) \/ JsLe(pts, Num(0))

\* const operation = op === "sub" ? "sub" : "add"
Operation(op) == IF op = Str(<<"s", "u", "b">>) THEN "sub" ELSE "add"

\* const delta = operation === "sub" ? -pts : pts
Delta(operation, pts) == IF operation = "sub" THEN JsNeg(pts) ELSE pts

\* a slip: empty strings where null is meant
NewUserEmptyProfile(userId) ==
  [id |-> userId, name |-> Str(<<>>), email |-> Str(<<>>), phone |-> Str(<<>>), points |-> Num(0)]

\* { id: userId, name: null, email: null, phone: null, points: 0 }
NewUser(userId) ==
  [id |-> userId, name |-> Null, email |-> Null, phone |-> Null, points |-> Num(0)]

\* Math.max(0, (user.points || 0) + delta)
ClampedBalance(points, delta) == MathMax(Num(0), JsAdd(OrElse(points, Num(0)), delta))

\* db.users.find((u) => u.id === userId), as an index; 0 when there is none
FindUser(users, userId) == FirstIndex({i \in 1..Len(users) : users[i].id = userId})

PointsAddHandler(d, body, id, now) ==
  LET amt == ParseFloat(OrElse(body.amount, Num(0)))
      pts == DerivePoints(body.points, amt)
      operation == Operation(body.op)
      delta == Delta(operation, pts)
      found == FindUser(d.users, body.userId)
      users1 == IF found = 0 THEN Push(d.users, NewUser(body.userId)) ELSE d.users
      idx == IF found = 0 THEN Len(users1) ELSE found
      users2 == [users1 EXCEPT ![idx].points = ClampedBalance(@, delta)]
      opObj == [id |-> id, userId |-> body.userId,
                amount |-> IF amt.t = "nan" THEN Num(0) ELSE amt,
                points |-> pts, op |-> operation,
                note |-> OrElse(body.note, Str(<<>>)), createdAt |-> now]
  IN CASE ~Truthy(body.userId) -> Rejected(d, 400, "Brak userId")
       [] PointsInvalid(pts) -> Rejected(d, 400, "Liczba punktow musi byc wieksza niz 0")
       [] OTHER ->
          Accepted([d EXCEPT !.users = users2, !.pointsOps = Unshift(@, opObj)], 200, TRUE)

(* ----------------------------- rewards -------------------------------- *)

\* x ? String(x) : ""
StringOrEmpty(x) == IF Truthy(x) THEN Str(JsString(x)) ELSE Str(<<>>)

\* db.rewards.findIndex((r) => r.id === id), counted from 1; 0 when there is none
FindById(arr, id) == FirstIndex({i \in 1..Len(arr) : arr[i].id = id})

\* POST /api/milk/rewards
RewardCreateHandler(d, body, id, now) ==
  LET reward == [id |-> id, title |-> Str(JsString(body.title)), cost |-> ParseInt(body.cost),
                 desc |-> StringOrEmpty(body.desc), icon |-> StringOrEmpty(body.icon),
                 createdAt |-> now]
  IN IF ~Truthy(body.title) \/ ~Truthy(body.cost)
     THEN Rejected(d, 400, "Wymagane jest 'title' i 'cost'")
     ELSE Accepted([d EXCEPT !.rewards = Push(@, reward)], 201, TRUE)

\* if (x !== undefined) reward.f = String(x)
UpdatedString(x, old) == IF x # Undef THEN Str(JsString(x)) ELSE old

\* a slip: parseInt(cost, 10) ?? reward.cost, with a test for NaN alone
UpdatedCostUnlessNaN(cost, old) ==
  IF cost # Undef /\ ParseInt(cost) # NaN THEN ParseInt(cost) ELSE old

\* if (cost !== undefined) reward.cost = parseInt(cost, 10) || reward.cost
UpdatedCost(cost, old) == IF cost # Undef THEN OrElse(ParseInt(cost), old) ELSE old

\* PUT /api/milk/rewards/:id
RewardUpdateHandler(d, id, body) ==
  LET idx == FindById(d.rewards, id)
      r == d.rewards[idx]
      reward == [r EXCEPT !.title = UpdatedString(body.title, @),
                          !.cost = UpdatedCost(body.cost, @),
                          !.desc = UpdatedString(body.desc, @),
                          !.icon = UpdatedString(body.icon, @)]
  IN IF idx = 0
     THEN Rejected(d, 404, "Nagroda nie istnieje")
     ELSE Accepted([d EXCEPT !.rewards[idx] = reward], 200, FALSE)

\* a slip: splice(0, 1) where splice(idx, 1) is meant
RewardDeleteFirst(d, id) ==
  LET idx == FindById(d.rewards, id)
  IN IF idx = 0
     THEN Rejected(d, 404, "Nagroda nie istnieje")
     ELSE Accepted([d EXCEPT !.rewards = Splice(@, 1)], 200, FALSE)

\* DELETE /api/milk/rewards/:id
RewardDeleteHandler(d, id) ==
  LET idx == FindById(d.rewards, id)
  IN IF idx = 0
     THEN Rejected(d, 404, "Nagroda nie istnieje")
     ELSE Accepted([d EXCEPT !.rewards = Splice(@, idx)], 200, FALSE)

(* ------------------------------ orders -------------------------------- *)

Arr(elems) == [t |-> "array", v |-> 0, s |-> elems]

\* status: "Przyjete", written without the ogonek of the source
Przyjete == Str(<<"P", "r", "z", "y", "j", "e", "t", "e">>)

\* a destructuring default: `x = dflt` applies to undefined only
Default(x, dflt) == IF x = Undef THEN dflt ELSE x

\* POST /api/milk/orders; items.length throws on null, which the catch turns into 500
OrderCreateHandler(d, body, id, now) ==
  LET items == Default(body.items, Arr(<<>>))
      order == [id |-> id, items |-> items,
                total |-> OrElse(ToNumber(Default(body.total, Num(0))), Num(0)),
                pickupTime |-> OrElse(body.pickupTime, Null),
                pickupLocation |-> OrElse(body.pickupLocation, Null),
                notes |-> OrElse(body.notes, Str(<<>>)),
                status |-> Przyjete, userId |-> OrElse(body.userId, Null),
                createdAt |-> now, updatedAt |-> Null]
  IN CASE items = Null -> Rejected(d, 500, "Blad tworzenia zamowienia")
       [] Len(items.s) = 0 -> Rejected(d, 400, "Brak pozycji w zamowieniu")
       [] OTHER -> Accepted([d EXCEPT !.orders = Unshift(@, order)], 201, TRUE)

\* PUT /api/milk/orders/:id
OrderUpdateHandler(d, id, body, now) ==
  LET idx == FindById(d.orders, id)
      o == d.orders[idx]
      order == [o EXCEPT !.status = IF Truthy(body.status) THEN Str(JsString(body.status)) ELSE @,
                         !.updatedAt = now]
  IN IF idx = 0
     THEN Rejected(d, 404, "Zamowienie nie istnieje")
     ELSE Accepted([d EXCEPT !.orders[idx] = order], 200, FALSE)

(* ------------------------------ stats --------------------------------- *)

Wydane == <<"w", "y", "d", "a", "n", "e">>

\* a slip: the comparison without toLowerCase()
IsActiveOrderCaseSensitive(o) == JsString(OrElse(o.status, Str(<<>>))) # Wydane

\* String(o.status || "").toLowerCase() !== "wydane"
IsActiveOrder(o) == ToLowerCase(JsString(OrElse(o.status, Str(<<>>)))) # Wydane

\* arr.filter(p).length; hits is the set of indexes the predicate keeps
CountOf(hits) == Cardinality(hits)

RECURSIVE SumPoints(_)
\* db.users.reduce((sum, u) => sum + (u.points || 0), 0)
SumPoints(users) ==
  IF users = <<>> THEN Num(0)
  ELSE JsAdd(SumPoints(SubSeq(users, 1, Len(users) - 1)), OrElse(users[Len(users)].points, Num(0)))

\* GET /api/milk/stats
Stats(d) ==
  [users |-> Len(d.users),
   pointsTotal |-> SumPoints(d.users),
   redeems |-> CountOf({i \in 1..Len(d.pointsOps) : d.pointsOps[i].op = "sub"}),
   ordersActive |-> CountOf({i \in 1..Len(d.orders) : IsActiveOrder(d.orders[i])}),
   prepaid |-> Len(d.prepaid)]

(* ------------------------------ prepaid ------------------------------- *)

ZakupKarty == Str(<<"Z", "a", "k", "u", "p">>)
Doladowanie == Str(<<"D", "o", "l", "a", "d", "o", "w", "a", "n", "i", "e">>)
Korekta == Str(<<"K", "o", "r", "e", "k", "t", "a">>)

\* title || `Karta ${val} zl`
CardTitle(title, val) == OrElse(title, Str(<<"K", "a", "r", "t", "a", " ">> \o JsString(val)))

\* a slip: the balance starts at the value, without the bonus
NewCardWithoutBonus(id, code, title, val, bon, userId, now) ==
  [id |-> id, code |-> code, title |-> CardTitle(title, val), value |-> val, bonus |-> bon,
   total |-> JsAdd(val, bon), balance |-> val, userId |-> OrElse(userId, Null),
   createdAt |-> now,
   history |-> <<[delta |-> JsAdd(val, bon), note |-> ZakupKarty, date |-> now]>>]

\* the card object literal of the purchase handler
NewCard(id, code, title, val, bon, userId, now) ==
  [id |-> id, code |-> code, title |-> CardTitle(title, val), value |-> val, bonus |-> bon,
   total |-> JsAdd(val, bon), balance |-> JsAdd(val, bon), userId |-> OrElse(userId, Null),
   createdAt |-> now,
   history |-> <<[delta |-> JsAdd(val, bon), note |-> ZakupKarty, date |-> now]>>]

\* POST /api/milk/prepaid/purchase; code is String(Math.floor(100000 + Math.random() * 900000))
PrepaidPurchaseHandler(d, body, code, id, now) ==
  LET val == ToNumber(OrElse(body.value, Num(0)))
      bon == ToNumber(OrElse(Default(body.bonus, Num(0)), Num(0)))
      card == NewCard(id, code, body.title, val, bon, body.userId, now)
  IN IF ~Truthy(val)
     THEN Rejected(d, 400, "Wartosc karty musi byc > 0")
     ELSE Accepted([d EXCEPT !.prepaid = Unshift(@, card)], 201, TRUE)

\* a ?? b
Coalesce(a, b) == IF a.t \in {"undefined", "null"} THEN b ELSE a

\* db.prepaid.find((p) => String(p.code) === code), as an index; 0 when there is none
FindCard(cards, code) == FirstIndex({i \in 1..Len(cards) : cards[i].code = code})

\* card.balance ?? card.total ?? card.value ?? 0
PrevBalance(card) == Coalesce(Coalesce(Coalesce(card.balance, card.total), card.value), Num(0))

\* if (next < 0) return 400
AdjustRefused(next) == JsLt(next, Num(0))

\* d > 0 ? "Doladowanie (admin)" : "Korekta / odjecie (admin)", shortened
DefaultNote(dl) == IF JsLt(Num(0), dl) THEN Doladowanie ELSE Korekta

\* card.balance = next; card.history.unshift({ delta: d, note, date })
AdjustedCard(card, next, dl, note, now) ==
  [card EXCEPT !.balance = next,
               !.history = Unshift(@, [delta |-> dl,
                                       note |-> OrElse(note, DefaultNote(dl)),
                                       date |-> now])]

\* a slip: card.balance = next is assigned before next < 0 is looked at
PrepaidAdjustAssignsFirst(d, code, body, now) ==
  LET dl == ToNumber(OrElse(body.delta, Num(0)))
      idx == FindCard(d.prepaid, code)
      card == d.prepaid[idx]
      next == JsAdd(PrevBalance(card), dl)
  IN CASE ~Truthy(dl) -> Rejected(d, 400, "delta musi byc rozne od 0")
       [] idx = 0 -> Rejected(d, 404, "Karta nie istnieje")
       [] AdjustRefused(next) ->
          Rejected([d EXCEPT !.prepaid[idx].balance = next], 400, "Saldo nie moze byc ujemne")
       [] OTHER ->
          Accepted([d EXCEPT !.prepaid[idx] = AdjustedCard(card, next, dl, body.note, now)],
                   200, FALSE)

\* POST /api/milk/prepaid/:code/adjust
PrepaidAdjustHandler(d, code, body, now) ==
  LET dl == ToNumber(OrElse(body.delta, Num(0)))
      idx == FindCard(d.prepaid, code)
      card == d.prepaid[idx]
      next == JsAdd(PrevBalance(card), dl)
  IN CASE ~Truthy(dl) -> Rejected(d, 400, "delta musi byc rozne od 0")
       [] idx = 0 -> Rejected(d, 404, "Karta nie istnieje")
       [] AdjustRefused(next) -> Rejected(d, 400, "Saldo nie moze byc ujemne")
       [] OTHER ->
          Accepted([d EXCEPT !.prepaid[idx] = AdjustedCard(card, next, dl, body.note, now)],
                   200, FALSE)

(* ------------------------------ requests ------------------------------ *)

U1 == Str(<<"u", "1">>)
U2 == Str(<<"u", "2">>)
Sub == Str(<<"s", "u", "b">>)

PointsBody(u, points, amount, o) ==
  [userId |-> u, points |-> points, amount |-> amount, op |-> o, note |-> Undef]

\* (points, amount): neither, an amount under 10, an amount, an explicit count,
\* an amount that is not finite
PointsAmounts ==
  {<<Undef, Undef>>, <<Undef, Num(9)>>, <<Undef, Num(95)>>, <<Str(<<"3", "x">>), Undef>>,
   <<Undef, Str(InfinityChars)>>}

\* req.body of POST /api/milk/points/add: every (points, amount) for u1, an
\* explicit count for u2, and a body without userId
PointsBodies ==
  {PointsBody(U1, pa[1], pa[2], o) : pa \in PointsAmounts, o \in {Undef, Sub}}
  \cup {PointsBody(U2, Str(<<"3", "x">>), Undef, o) : o \in {Undef, Sub}}
  \cup {PointsBody(Undef, Num(3), Undef, Undef)}

\* req.body of POST /api/milk/rewards
RewardBodies ==
  [title : {Undef, Str(<<"k", "a", "w", "a">>)},
   cost : {Undef, Num(50), Str(<<"-", "5">>)},
   desc : {Undef},
   icon : {Undef}]

\* req.body of PUT /api/milk/rewards/:id: a cost alone: a number, which is
\* negative, zero, and a string that is not a number
RewardUpdates ==
  [title : {Undef},
   cost : {Num(-7), Num(0), Str(<<"x">>)},
   desc : {Undef},
   icon : {Undef}]

Item == [title |-> Str(<<"k", "a", "w", "a">>), qty |-> Num(1), price |-> Num(12)]

\* req.body of POST /api/milk/orders
OrderBodies ==
  [items : {Undef, Null, Arr(<<>>), Arr(<<Item>>)},
   total : {Num(12)},
   pickupTime : {Undef}, pickupLocation : {Undef}, notes : {Undef}, userId : {Undef}]

\* req.body of PUT /api/milk/orders/:id
StatusBodies ==
  [status : {Undef, Str(<<"W", "y", "d", "a", "n", "e">>), Str(<<"W", "Y", "D", "A", "N", "E">>),
             Str(Wydane), Str(<<"G", "o", "t", "o", "w", "e">>)}]

\* req.body of POST /api/milk/prepaid/purchase
PurchaseBodies ==
  [title : {Undef},
   value : {Undef, Str(<<"1", "0", "0">>), Num(-100)},
   bonus : {Undef, Num(10)},
   userId : {Undef}]

\* req.body of POST /api/milk/prepaid/:code/adjust
AdjustBodies ==
  [delta : {Undef, Num(-50), Num(-1000)},
   note : {Undef}]

\* the codes Math.random() draws in the model: two of the 900000
Codes == {<<"1", "0", "0", "0", "0", "0">>, <<"9", "9", "9", "9", "9", "9">>}

\* the ids a route parameter names: those genId() can have returned so far
RewardIds == 1..MaxRewardSaves
OrderIds == 1..MaxOrderSaves

(* ------------------------------ state --------------------------------- *)

\* db       the in-memory database
\* file     the content of db-milk.json
\* pending  the requests suspended in `await saveDb()`: the text handed to
\*          writeFile and the response the handler sends once saveDb() resolves
\* resp     the response sent last
\* nextId   genId() returns a fresh id: the model numbers them 1, 2, ...
\* nsave    the calls of saveDb() by handlers so far
\* removed  the ids of the rewards DELETE has removed
\* failed   whether a writeFile of saveDb() has been rejected so far

NoResp ==
  [kind |-> "none", status |-> 0, msg |-> "", param |-> Undef,
   saveFailed |-> FALSE, body |-> Undef]

\* new Date().toISOString(): the time itself is not modelled, every timestamp is this string
Now == Str(<<"T">>)

\* The state once loadDb() has finished on a first start: no db-milk.json, so
\* saveDb() has written the empty database.
Init ==
  /\ db = EmptyDb
  /\ file = Stringify(EmptyDb)
  /\ pending = <<>>
  /\ resp = NoResp
  /\ nextId = 1
  /\ nsave = 0
  /\ removed = {}
  /\ failed = FALSE

\* One request: the handler's synchronous part r on the current db.  An accepted
\* request has called saveDb(), which has evaluated JSON.stringify(db) and now
\* awaits writeFile; a rejected one has sent its response.
Handle(kind, param, r, bound) ==
  /\ r.save => nsave < bound
  /\ db' = r.db
  /\ nextId' = IF r.usedId THEN nextId + 1 ELSE nextId
  /\ nsave' = IF r.save THEN nsave + 1 ELSE nsave
  /\ IF r.save
     THEN /\ pending' = Append(pending, [snap |-> Stringify(r.db), kind |-> kind, param |-> param,
                                         status |-> r.status])
          /\ UNCHANGED resp
     ELSE /\ resp' = [kind |-> kind, status |-> r.status, msg |-> r.msg, param |-> param,
                      saveFailed |-> FALSE, body |-> Undef]
          /\ UNCHANGED pending
  /\ removed' = IF kind = "rewardDelete" /\ r.save THEN removed \cup {param.v} ELSE removed
  /\ UNCHANGED <<file, failed>>

PointsAdd ==
  \E body \in PointsBodies :
    Handle("points", Undef, PointsAddHandler(db, body, nextId, Now), MaxPointsSaves)

RewardCreate ==
  \E body \in RewardBodies :
    Handle("rewardCreate", Undef, RewardCreateHandler(db, body, nextId, Now), MaxRewardSaves)

RewardUpdate ==
  \E id \in RewardIds, body \in RewardUpdates :
    Handle("rewardUpdate", Num(id), RewardUpdateHandler(db, id, body), MaxRewardSaves)

RewardDelete ==
  \E id \in RewardIds : Handle("rewardDelete", Num(id), RewardDeleteHandler(db, id), MaxRewardSaves)

OrderCreate ==
  \E body \in OrderBodies :
    Handle("orderCreate", Undef, OrderCreateHandler(db, body, nextId, Now), MaxOrderSaves)

OrderUpdate ==
  \E id \in OrderIds, body \in StatusBodies :
    Handle("orderUpdate", Num(id), OrderUpdateHandler(db, id, body, Now), MaxOrderSaves)

PrepaidPurchase ==
  \E body \in PurchaseBodies, code \in Codes :
    Handle("purchase", Undef, PrepaidPurchaseHandler(db, body, code, nextId, Now), MaxPrepaidSaves)

PrepaidAdjust ==
  \E body \in AdjustBodies, code \in Codes :
    Handle("adjust", Str(code), PrepaidAdjustHandler(db, code, body, Now), MaxPrepaidSaves)

\* a slip: saveDb() reads the file back into db once it is written
SaveDbReloads ==
  \E i \in 1..Len(pending), outcome \in {"written", "failed"} :
    /\ file' = IF outcome = "written" THEN pending[i].snap ELSE file
    /\ db' = IF outcome = "written" THEN pending[i].snap ELSE db
    /\ resp' = [kind |-> pending[i].kind, status |-> pending[i].status, msg |-> "",
                param |-> pending[i].param,
                saveFailed |-> outcome # "written", body |-> Undef]
    /\ pending' = Splice(pending, i)
    /\ failed' = (failed \/ outcome = "failed")
    /\ UNCHANGED <<nextId, nsave, removed>>

\* saveDb() as it would be with the writes queued one behind the other, each
\* serialising db when its turn comes: not what the code does
SaveDbQueued ==
  \E outcome \in {"written", "failed"} :
    /\ pending # <<>>
    /\ file' = IF outcome = "written" THEN Stringify(db) ELSE file
    /\ resp' = [kind |-> pending[1].kind, status |-> pending[1].status, msg |-> "",
                param |-> pending[1].param,
                saveFailed |-> outcome # "written", body |-> Undef]
    /\ pending' = Splice(pending, 1)
    /\ failed' = (failed \/ outcome = "failed")
    /\ UNCHANGED <<db, nextId, nsave, removed>>

\* async function saveDb(): writeFile settles; a rejection is caught and logged,
\* so saveDb() resolves either way and the handler goes on to its success response.
\* A failed write is one that could not open the file: the old content stays.
SaveDbSettles ==
  \E i \in 1..Len(pending), outcome \in {"written", "failed"} :
    /\ file' = IF outcome = "written" THEN pending[i].snap ELSE file
    /\ resp' = [kind |-> pending[i].kind, status |-> pending[i].status, msg |-> "",
                param |-> pending[i].param,
                saveFailed |-> outcome # "written", body |-> Undef]
    /\ pending' = Splice(pending, i)
    /\ failed' = (failed \/ outcome = "failed")
    /\ UNCHANGED <<db, nextId, nsave, removed>>

\* GET /api/milk/stats
GetStats ==
  /\ resp' = [kind |-> "stats", status |-> 200, msg |-> "", param |-> Undef,
              saveFailed |-> FALSE, body |-> Stats(db)]
  /\ UNCHANGED <<db, file, pending, nextId, nsave, removed, failed>>

\* GET /api/milk/points/ops
GetPointsOps ==
  /\ resp' = [kind |-> "ops", status |-> 200, msg |-> "", param |-> Undef,
              saveFailed |-> FALSE, body |-> db.pointsOps]
  /\ UNCHANGED <<db, file, pending, nextId, nsave, removed, failed>>

Next ==
  \/ PointsAdd
  \/ RewardCreate
  \/ RewardUpdate
  \/ RewardDelete
  \/ OrderCreate
  \/ OrderUpdate
  \/ PrepaidPurchase
  \/ PrepaidAdjust
  \/ SaveDbSettles
  \/ GetStats
  \/ GetPointsOps

Spec == Init /\ [][Next]_vars

\* The handlers of one collection at a time; they leave the other collections empty.
NextPoints == PointsAdd \/ SaveDbSettles \/ GetPointsOps

SpecPoints == Init /\ [][NextPoints]_vars

NextRewards == RewardCreate \/ RewardUpdate \/ RewardDelete \/ SaveDbSettles

SpecRewards == Init /\ [][NextRewards]_vars

NextOrders == OrderCreate \/ OrderUpdate \/ SaveDbSettles \/ GetStats

SpecOrders == Init /\ [][NextOrders]_vars

NextPrepaid == PrepaidPurchase \/ PrepaidAdjust \/ SaveDbSettles

SpecPrepaid == Init /\ [][NextPrepaid]_vars

\* The card of a start on a db-milk.json that holds one: a card of 100 bought
\* in an earlier run, under one of the codes of the model.
LoadedCode == <<"1", "0", "0", "0", "0", "0">>

LoadedCard == NewCard(0, LoadedCode, Undef, Num(100), Num(0), Undef, Now)

\* The state once loadDb() has read a db-milk.json with one prepaid card in it.
InitLoaded ==
  /\ db = [EmptyDb EXCEPT !.prepaid = <<LoadedCard>>]
  /\ file = Stringify(db)
  /\ pending = <<>>
  /\ resp = NoResp
  /\ nextId = 1
  /\ nsave = 0
  /\ removed = {}
  /\ failed = FALSE

\* Requests that overlap on the loaded database: adjustments of cards and
\* points operations, each suspended in `await saveDb()` while others run.
NextOverlap == PrepaidAdjust \/ PointsAdd \/ SaveDbSettles

SpecOverlap == InitLoaded /\ [][NextOverlap]_vars

(* ----------------------------- properties ----------------------------- *)

\* A step in which a handler of this kind answered without calling saveDb():
\* a rejection.  (An accepted request leaves resp alone and extends pending.)
RejectedStep(kind) == nsave' = nsave /\ pending' = pending /\ resp'.kind = kind

\* A step in which a handler of this kind called saveDb().
AcceptedStep(kind) ==
  Len(pending') = Len(pending) + 1 /\ pending'[Len(pending')].kind = kind

\* C1: after every accepted points operation the balance is max(0, previous +
\* signed points), so every user's points balance is a number >= 0.
C1_BalanceNeverNegative == \A i \in 1..Len(db.users) : JsLe(Num(0), db.users[i].points)

\* C2: a points operation whose point count, given or derived as
\* floor(amount / 10), is not a positive integer is rejected: the count of
\* every ledger entry is a positive integer.
C2_CountIsPositiveInteger ==
  \A i \in 1..Len(db.pointsOps) : IsFinite(db.pointsOps[i].points) /\ db.pointsOps[i].points.v > 0

\* newest first: of two entries the one genId() numbered later comes first
NewestFirst(ops) == \A i, j \in 1..Len(ops) : i < j => ops[i].id > ops[j].id

\* C3: the points ledger is append-only and newest-first: a step leaves it as
\* it is or puts one entry at its head, every accepted points operation puts
\* one, and GET /api/milk/points/ops returns the ledger, later operations first.
C3_LedgerAppendOnly ==
  [][/\ \/ db'.pointsOps = db.pointsOps
        \/ /\ Len(db'.pointsOps) = Len(db.pointsOps) + 1
           /\ Tail(db'.pointsOps) = db.pointsOps
     /\ AcceptedStep("points") => Len(db'.pointsOps) = Len(db.pointsOps) + 1
     /\ RejectedStep("ops") => resp'.body = db.pointsOps /\ NewestFirst(resp'.body)]_vars

C3_Witness ==
  /\ resp.kind = "ops"
  /\ Len(resp.body) = 2
  /\ resp.body = db.pointsOps
  /\ resp.body[1].id = 2
  /\ resp.body[2].id = 1

\* C4: the balance of every prepaid card is a number >= 0 in every reachable state.
C4_CardBalanceNeverNegative ==
  \A i \in 1..Len(db.prepaid) : JsLe(Num(0), db.prepaid[i].balance)

SaldoUjemne == "Saldo nie moze byc ujemne"

\* C5: an adjustment rejected because balance + delta would be negative is
\* answered 400 and leaves the database and the file as they were.
C5_RejectedAdjustChangesNothing ==
  [][RejectedStep("adjust") /\ resp'.msg = SaldoUjemne
       => resp'.status = 400 /\ db' = db /\ file' = file]_vars

C5_Witness ==
  /\ resp.kind = "adjust"
  /\ resp.status = 400
  /\ resp.msg = SaldoUjemne
  /\ \E i \in 1..Len(db.prepaid) :
       /\ db.prepaid[i].code = resp.param.s
       /\ db.prepaid[i].balance = Num(60)
       /\ Len(db.prepaid[i].history) = 2

\* C6: a purchase puts one card at the head of the list, with balance = total =
\* value + bonus and a history of exactly one entry whose delta is that sum; a
\* purchase without bonus has bonus 0.
C6_PurchaseInitialBalance ==
  /\ \A i \in 1..Len(db.prepaid) :
       LET c == db.prepaid[i]
       IN /\ IsFinite(c.value) /\ IsFinite(c.bonus) => c.total = Num(c.value.v + c.bonus.v)
          /\ c.history[Len(c.history)].delta = c.total
          /\ Len(c.history) = 1 => c.balance = c.total
  /\ \A body \in PurchaseBodies, code \in Codes :
       LET r == PrepaidPurchaseHandler(db, body, code, nextId, Now)
           c == Head(r.db.prepaid)
       IN r.save =>
            /\ Tail(r.db.prepaid) = db.prepaid
            /\ Len(c.history) = 1
            /\ c.balance = c.total
            /\ c.history[1].delta = c.total
            /\ IsFinite(body.value) => c.value = body.value
            /\ body.bonus = Undef => c.bonus = Num(0)
            /\ IsFinite(body.bonus) => c.bonus = body.bonus

C6_Witness ==
  \E i \in 1..Len(db.prepaid) :
    /\ db.prepaid[i].value = Num(100)
    /\ db.prepaid[i].bonus = Num(10)
    /\ db.prepaid[i].total = Num(110)
    /\ db.prepaid[i].balance = Num(110)
    /\ Len(db.prepaid[i].history) = 1
    /\ db.prepaid[i].history[1].delta = Num(110)

\* C7: a mutating request whose write of the state file fails is answered with
\* a 5xx status, never with success.
C7_FailedSaveIsServerError == resp.saveFailed => resp.status >= 500

\* C8: DELETE of an existing reward removes exactly that reward and is answered
\* ok; a DELETE of an id that has been removed is answered 404 and leaves the
\* rewards as they are.
C8_DeleteTwice ==
  [][/\ AcceptedStep("rewardDelete") =>
          LET e == pending'[Len(pending')]
              at == {i \in 1..Len(db.rewards) : db.rewards[i].id = e.param.v}
          IN /\ e.param.v \notin removed
             /\ e.status = 200
             /\ \E i \in at : db'.rewards = SubSeq(db.rewards, 1, i - 1)
                                            \o SubSeq(db.rewards, i + 1, Len(db.rewards))
     /\ Len(db'.rewards) < Len(db.rewards) => AcceptedStep("rewardDelete")
     /\ RejectedStep("rewardDelete") => resp'.status = 404 /\ db' = db
     /\ \A i \in 1..Len(db.rewards) : db.rewards[i].id \notin removed
     /\ Len(pending') < Len(pending) /\ resp'.kind = "rewardDelete" => resp'.status = 200]_vars

C8_Witness ==
  /\ resp.kind = "rewardDelete"
  /\ resp.status = 404
  /\ resp.param.v \in removed
  /\ Len(db.rewards) = 1
  /\ pending = <<>>

\* the letters of "wydane" in their two cases
CasePairs ==
  {<<"w", "W">>, <<"y", "Y">>, <<"d", "D">>, <<"a", "A">>, <<"n", "N">>, <<"e", "E">>}

\* two strings that differ in the case of letters only
EqualIgnoringCase(a, b) ==
  /\ Len(a) = Len(b)
  /\ \A k \in 1..Len(a) : a[k] = b[k] \/ <<a[k], b[k]>> \in CasePairs \/ <<b[k], a[k]>> \in CasePairs

\* the orders whose status is not "wydane" in any letter case
NotHandedOut == {i \in 1..Len(db.orders) : ~EqualIgnoringCase(db.orders[i].status.s, Wydane)}

\* C9: ordersActive of GET /api/milk/stats is the number of orders whose status
\* is not "wydane" in any letter case; an order just created is counted.
C9_OrdersActive ==
  /\ Stats(db).ordersActive = Cardinality(NotHandedOut)
  /\ \A i \in 1..Len(db.orders) : db.orders[i].status = Przyjete => i \in NotHandedOut

C9_Witness ==
  /\ resp.kind = "stats"
  /\ resp.body.ordersActive = 1
  /\ Len(db.orders) = 2
  /\ \E i \in 1..2 : db.orders[i].status = Str(<<"W", "Y", "D", "A", "N", "E">>)
  /\ \E i \in 1..2 : db.orders[i].status = Przyjete

\* C10: an accepted points operation for a userId that is not in the list
\* appends exactly one user with that id, null name, email and phone, and the
\* balance 0 with the delta applied (p for an add of p, 0 for a sub); for a
\* userId in the list it adds no user; a rejected one changes nothing.
C10_UnknownUserCreated ==
  [][/\ AcceptedStep("points") =>
          LET e == Head(db'.pointsOps)
              known == \E i \in 1..Len(db.users) : db.users[i].id = e.userId
          IN IF known
             THEN Len(db'.users) = Len(db.users)
             ELSE db'.users = Append(db.users,
                                     [id |-> e.userId, name |-> Null, email |-> Null,
                                      phone |-> Null,
                                      points |-> IF e.op = "sub" THEN Num(0) ELSE e.points])
     /\ RejectedStep("points") => resp'.status = 400 /\ db' = db]_vars

C10_Witness ==
  /\ Len(db.users) = 2
  /\ db.users[1].id = U1
  /\ db.users[1].points = Num(9)
  /\ db.users[2].id = U2
  /\ db.users[2].points = Num(0)
  /\ Head(db.pointsOps).userId = U2
  /\ Head(db.pointsOps).op = "sub"

\* A step in which the writeFile of the i-th suspended request settles.
SettledStep(i) == i \in 1..Len(pending) /\ pending' = Splice(pending, i) /\ db' = db

\* C11: requests that overlap race on the whole-state file write.  saveDb()
\* hands writeFile the serialisation of the whole db as it is when the request
\* runs, and a write that succeeds replaces the whole file with that text
\* whichever write finishes last, so that a write can put back a text older
\* than the one in the file.
C11_WriteReplacesWholeFile ==
  [][/\ \A k \in {"purchase", "adjust"} :
          AcceptedStep(k) => pending'[Len(pending')].snap = Stringify(db')
     /\ Len(pending') < Len(pending)
          => \E i \in 1..Len(pending) :
               /\ SettledStep(i)
               /\ file' = IF resp'.saveFailed THEN file ELSE pending[i].snap
               /\ resp'.status = pending[i].status]_vars

\* A purchase and an adjustment of the new card overlapped, both were answered
\* with success and no write failed, yet the file holds the card without the
\* adjustment that db has.
C11_Witness ==
  /\ pending = <<>>
  /\ ~failed
  /\ nsave = 2
  /\ resp.kind = "purchase"
  /\ resp.status = 201
  /\ ~resp.saveFailed
  /\ Len(db.prepaid) = 1
  /\ db.prepaid[1].balance = Num(50)
  /\ Len(db.prepaid[1].history) = 2
  /\ Len(file.prepaid) = 1
  /\ file.prepaid[1].balance = Num(100)
  /\ Len(file.prepaid[1].history) = 1
  /\ file # Stringify(db)

Sok == Str(<<"s", "o", "k">>)
SevenX == Str(<<"7", "x">>)

\* The bodies the statements about PUT /api/milk/rewards/:id are tried on.
C12_Bodies ==
  [title : {Undef},
   cost : {Undef, Null, Num(20), Num(0), Num(-7), Str(<<"x">>), Str(<<>>), SevenX},
   desc : {Undef},
   icon : {Undef}]
  \cup {[title |-> Sok, cost |-> Undef, desc |-> Undef, icon |-> Undef],
        [title |-> Sok, cost |-> Num(0), desc |-> Undef, icon |-> Undef],
        [title |-> Undef, cost |-> Undef, desc |-> Str(<<>>), icon |-> Sok]}

\* The outcome of an accepted PUT of body on the reward at idx that stores cost:
\* that reward alone changes, and of it neither id nor createdAt nor a field
\* the body does not hold.
C12_Updated(idx, body, cost) ==
  Accepted([db EXCEPT !.rewards[idx] =
               [id |-> @.id,
                title |-> IF body.title = Undef THEN @.title ELSE body.title,
                cost |-> cost,
                desc |-> IF body.desc = Undef THEN @.desc ELSE body.desc,
                icon |-> IF body.icon = Undef THEN @.icon ELSE body.icon,
                createdAt |-> @.createdAt]],
           200, FALSE)

\* C12 as the specification states it: absent fields stay, a non-numeric cost
\* keeps the prior cost, and any other cost, zero and negative ones too, is stored.
C12_AnyNumberStored ==
  \A id \in RewardIds, body \in C12_Bodies :
    LET idx == FindById(db.rewards, id)
    IN idx # 0 /\ body.cost # SevenX =>
         RewardUpdateHandler(db, id, body)
           = C12_Updated(idx, body, IF IsFinite(body.cost) THEN body.cost
                                    ELSE db.rewards[idx].cost)

\* C12, amended: absent fields stay; the prior cost is kept when the cost
\* supplied is not numeric or is zero; another number is stored, a negative one
\* too, and of a string that begins with digits the integer it begins with.
C12_UpdateKeepsOrReplaces ==
  \A id \in RewardIds, body \in C12_Bodies :
    LET idx == FindById(db.rewards, id)
    IN RewardUpdateHandler(db, id, body)
         = IF idx = 0 THEN Rejected(db, 404, "Nagroda nie istnieje")
           ELSE C12_Updated(idx, body,
                            CASE IsFinite(body.cost) /\ body.cost.v # 0 -> body.cost
                              [] body.cost = SevenX -> Num(7)
                              [] OTHER -> db.rewards[idx].cost)

\* An update has stored a negative cost on a reward that was created with
\* another cost, and has left its title alone.
C12_Witness ==
  /\ resp.kind = "rewardUpdate"
  /\ resp.status = 200
  /\ \E i \in 1..Len(db.rewards) :
       /\ db.rewards[i].id = resp.param.v
       /\ db.rewards[i].cost = Num(-7)
       /\ db.rewards[i].title = Str(<<"k", "a", "w", "a">>)
       /\ \E j \in 1..Len(file.rewards) :
            file.rewards[j].id = resp.param.v /\ file.rewards[j].cost = Num(-7)

\* sum of the delta of the entries from..Len(h) of a card's history
RECURSIVE SumDeltas(_, _)
SumDeltas(h, from) == IF from > Len(h) THEN 0 ELSE h[from].delta.v + SumDeltas(h, from + 1)

\* the adjustments in the history of the loaded card: all but the purchase, its last entry
AdjustEntries(d) == SubSeq(d.prepaid[1].history, 1, Len(d.prepaid[1].history) - 1)

\* C13: a handler's read-modify-write of db is one step, done before its await
\* of saveDb(), so no update of db is lost however requests overlap.  Every
\* accepted adjustment moves the balance of its card by its delta and adds one
\* history entry, every accepted points operation adds one ledger entry, and a
\* write that settles leaves db alone: after n accepted requests the ledger
\* entries and the adjustment entries are n, and the balance is the loaded
\* balance plus the sum of the deltas.
C13_NoLostUpdate ==
  [][/\ AcceptedStep("adjust")
          => /\ db'.prepaid[1].balance
                  = Num(db.prepaid[1].balance.v + Head(db'.prepaid[1].history).delta.v)
             /\ Tail(db'.prepaid[1].history) = db.prepaid[1].history
             /\ db'.pointsOps = db.pointsOps
     /\ AcceptedStep("points")
          => /\ Tail(db'.pointsOps) = db.pointsOps
             /\ db'.prepaid = db.prepaid
     /\ Len(pending') <= Len(pending) => db' = db
     /\ nsave' = Len(db'.pointsOps) + Len(AdjustEntries(db'))
     /\ db'.prepaid[1].balance
          = Num(LoadedCard.balance.v + SumDeltas(AdjustEntries(db'), 1))]_vars

\* Two adjustments of the loaded card were accepted while the first was still
\* suspended in its await, and the writes settled in the other order: the
\* balance is 100 - 50 - 50 and the history holds both.
C13_Witness ==
  /\ pending = <<>>
  /\ nsave = 2
  /\ db.prepaid[1].balance = Num(0)
  /\ Len(db.prepaid[1].history) = 3
  /\ db.pointsOps = <<>>
  /\ ~failed
  /\ file.prepaid[1].balance = Num(50)

====
